---- MODULE Spec2Model ----
(***************************************************************************)
(* Model of the Open Bus Stride QGIS plugin's route enrichment run         *)
(* (EnrichWithRoutes in processing_provider/algorithms/                    *)
(* enrich_with_routes.py) and of the HTTP client it calls                  *)
(* (StrideAPIClient in requests/stride_api_client.py).                     *)
(*                                                                         *)
(* One behaviour is one call of EnrichWithRoutes.processAlgorithm on an    *)
(* input layer: extraction of keys and dates, one batch fetch, the join.   *)
(* The behaviours of SpecLoc are the calls of                              *)
(* GetLocations.processAlgorithm (get_locations.py): one fetch, then the   *)
(* mapping of the returned items to features.                              *)
(***************************************************************************)
EXTENDS Integers, Sequences, FiniteSets, TLC

\* ------------------------------------------------------------------ bounds
\* Largest number of features of an input layer of the enrichment run.
MaxFeat == 2
\* Largest number of items of a JSON list the reference endpoint returns.
MaxResp == 2
\* Largest number of features of a layer of the extraction-only runs.
MaxScan == 3

\* ------------------------------------------------------------------ values
\* A Python / QGIS attribute value: a tag, an integer part, a string part.
\*   "null" : None or the QGIS NULL         "int" : a Python int
\*   "str"  : a Python str                  "dt"  : a QDateTime, i = day*100+hour
V(t, i, s) == [t |-> t, i |-> i, s |-> s]
NULL == V("null", 0, "")
IntV(n) == V("int", n, "")
StrV(s) == V("str", 0, s)
DtV(day, hour) == V("dt", day * 100 + hour, "")

Range(f) == {f[x] : x \in DOMAIN f}
SeqsUpTo(S, n) == UNION {[1..k -> S] : k \in 0..n}

\* Decimal digits of a natural number, as Python's str(int) writes them.
Digit(d) == CASE d = 0 -> "0" [] d = 1 -> "1" [] d = 2 -> "2" [] d = 3 -> "3"
              [] d = 4 -> "4" [] d = 5 -> "5" [] d = 6 -> "6" [] d = 7 -> "7"
              [] d = 8 -> "8" [] d = 9 -> "9"
RECURSIVE Decimal(_)
Decimal(n) == IF n < 10 THEN Digit(n) ELSE Decimal(n \div 10) \o Digit(n % 10)

\* The integers whose decimal text int() is asked to parse in this model.
ParseRange == 0..99
\* str(n) of each of them.
DecimalTexts == [n \in ParseRange |-> Decimal(n)]
DecimalSet == {DecimalTexts[n] : n \in ParseRange}

\* int(value): [ok, n]; a ValueError or TypeError is ok = FALSE.
PyInt(v) ==
    CASE v.t = "int" -> [ok |-> TRUE, n |-> v.i]
      [] v.t = "str" ->
           IF v.s \in DecimalSet
           THEN [ok |-> TRUE, n |-> CHOOSE n \in ParseRange : DecimalTexts[n] = v.s]
           ELSE [ok |-> FALSE, n |-> 0]
      [] OTHER -> [ok |-> FALSE, n |-> 0]

\* str(value), as an f-string or str() formats it.
PyStr(v) ==
    CASE v.t = "int" -> Decimal(v.i)
      [] v.t = "str" -> v.s
      [] v.t = "null" -> "None"
      [] OTHER -> "QDateTime"

\* QDateTime.toString('yyyy-MM-dd'): the day of the time stamp, the hour dropped.
FormatDate(v) ==
    LET day == v.i \div 100
    IN "2023-01-" \o (IF day < 10 THEN "0" \o Decimal(day) ELSE Decimal(day))

\* date.today().isoformat() on the day of the run.
Today == "2026-11-01"

\* dict.get(key): the value, or None when the key is missing.
DictGet(d, key) == IF key \in DOMAIN d THEN d[key] ELSE NULL
\* dict.get(key, default)
DictGetDefault(d, key, default) == IF key \in DOMAIN d THEN d[key] ELSE default

\* ------------------------------------------------------------------ layer
\* QgsFields.indexFromName: the position of the field, 0 standing for -1.
IndexFromName(flds, name) ==
    IF \E i \in 1..Len(flds) : flds[i] = name
    THEN CHOOSE i \in 1..Len(flds) : flds[i] = name /\ \A j \in 1..(i - 1) : flds[j] # name
    ELSE 0

\* feature[field_name] / feature.attribute(field_name)
Attr(flds, feat, name) == feat.attrs[IndexFromName(flds, name)]

VARIABLES
    fields,          \* input_layer.fields(): the sequence of field names
    features,        \* input_layer.getFeatures(): [attrs, geom] in layer order
    line_ref_field,  \* the LINE_REF_FIELD parameter
    pc,              \* where processAlgorithm is
    canceled,        \* feedback.isCanceled() has answered True
    ex_i,            \* extraction loop: index of the next feature
    unique_refs,     \* extraction: the key set
    min_date,        \* extraction: running minimum (NULL for None)
    max_date,        \* extraction: running maximum (NULL for None)
    date_from,       \* returned by the extractor
    date_to,         \* returned by the extractor
    requests,        \* the outbound requests issued, in order
    reply,           \* what the network answered to the last request
    route_data_map,  \* returned by _fetch_route_data
    sink,            \* the output sink: [created, fields, feats]
    en_i,            \* join loop: index of the next feature
    errors,          \* kinds of feedback.reportError calls made
    fatal            \* the QgsProcessingException that ended the run, or "none"

\* The state of a call of GetLocations.processAlgorithm.
VARIABLES
    l_pc,            \* where GetLocations.processAlgorithm is
    l_reply,         \* what the network answered to its request
    l_data,          \* data: the list fetch_data returned
    l_i,             \* _process_features loop: index of the next item
    l_sink,          \* the output sink: [created, feats]
    l_canceled,      \* feedback.isCanceled() has answered True
    l_fatal          \* the QgsProcessingException that ended the run, or "none"

locVars == <<l_pc, l_reply, l_data, l_i, l_sink, l_canceled, l_fatal>>

vars == <<fields, features, line_ref_field, pc, canceled, ex_i, unique_refs,
          min_date, max_date, date_from, date_to, requests, reply,
          route_data_map, sink, en_i, errors, fatal, locVars>>

layerVars == <<fields, features, line_ref_field>>
extractVars == <<ex_i, unique_refs, min_date, max_date>>
fetchVars == <<requests, reply, route_data_map>>


\* ------------------------------------------------------- program constants
\* EnrichWithRoutes.ROUTE_FIELDS: (name, type) in declared order.
ROUTE_FIELDS ==
    << <<"date", "String">>, <<"siri_line_ref", "Int">>,
       <<"siri_operator_ref", "Int">>, <<"route_short_name", "String">>,
       <<"route_long_name", "String">>, <<"route_mkt", "String">>,
       <<"route_direction", "String">>, <<"route_alternative", "String">>,
       <<"route_desc", "String">>, <<"agency_name", "String">>,
       <<"route_type", "String">> >>

\* EnrichWithRoutes.GTFS_FIELD_MAP.get(field_name, field_name)
\* (GtfsIdentity is the lookup with an empty rename table.)
GtfsIdentity(field_name) == field_name
GTFS_FIELD_MAP(field_name) ==
    CASE field_name = "siri_line_ref" -> "line_ref"
      [] field_name = "siri_operator_ref" -> "operator_ref"
      [] OTHER -> field_name

\* The candidate date fields of the extractor, in the order it tries them.
DATE_FIELDS == <<"recorded_at", "begin", "end", "scheduled_start">>

\* ------------------------------------------------------------ input layers
KeyColumns == {"siri_line_ref", "line_ref"}

\* Join-key values of the features of the enrichment runs.
KeyVals == {NULL, IntV(17), IntV(42), StrV("5"), StrV("x")}

\* The value a feature of key k carries in a date column, and its geometry.
DateOf(k) ==
    CASE k = IntV(17) -> DtV(5, 8)
      [] k = IntV(42) -> DtV(2, 23)
      [] k = StrV("5") -> DtV(9, 0)
      [] k = StrV("x") -> DtV(1, 12)
      [] OTHER -> StrV("n/a")
GeomOf(k) ==
    CASE k = IntV(17) -> "point_a"
      [] k = IntV(42) -> "point_b"
      [] k = StrV("5") -> "point_a"
      [] OTHER -> "none"

JoinSchemas ==
    { <<"siri_line_ref", "recorded_at">>,
      <<"line_ref", "begin", "agency_name">>,
      <<"id", "recorded_at">> }

JoinFeature(flds, k) ==
    [attrs |-> [i \in 1..Len(flds) |->
                  CASE flds[i] \in KeyColumns -> k
                    [] flds[i] \in Range(DATE_FIELDS) -> DateOf(k)
                    [] flds[i] = "agency_name" -> StrV("old")
                    [] OTHER -> IntV(1)],
     geom |-> GeomOf(k)]

JoinLayers ==
    UNION { { [fields |-> flds, features |-> fs, line_ref_field |-> lrf] :
                lrf \in KeyColumns,
                fs \in SeqsUpTo({JoinFeature(flds, k) : k \in KeyVals}, MaxFeat) }
            : flds \in JoinSchemas }

\* Layers of the extraction-only runs: two date columns holding v1 and v2.
DateSchemas ==
    { <<"line_ref", "recorded_at", "begin">>,
      <<"line_ref", "begin", "scheduled_start">> }
DateVals1 == {NULL, DtV(2, 10), DtV(5, 8), DtV(9, 0)}
DateVals2 == {NULL, DtV(1, 0)}
DateFeature(v1, v2) == [attrs |-> <<IntV(17), v1, v2>>, geom |-> "point_a"]
DateLayers ==
    { [fields |-> flds, features |-> fs, line_ref_field |-> "line_ref"] :
        flds \in DateSchemas,
        fs \in SeqsUpTo({DateFeature(v1, v2) : v1 \in DateVals1, v2 \in DateVals2},
                        MaxScan) }

\* No call of GetLocations.processAlgorithm is under way.
LocIdle ==
    /\ l_pc = "idle"
    /\ l_reply = [error |-> FALSE, status |-> 0, body |-> "none", items |-> <<>>]
    /\ l_data = <<>>
    /\ l_i = 1
    /\ l_sink = [created |-> FALSE, feats |-> <<>>]
    /\ l_canceled = FALSE
    /\ l_fatal = "none"

\* The state when processAlgorithm is entered on layer L.
RunInit(Layers) ==
    /\ LocIdle
    /\ \E L \in Layers :
         /\ fields = L.fields
         /\ features = L.features
         /\ line_ref_field = L.line_ref_field
    /\ pc = "start"
    /\ canceled = FALSE
    /\ ex_i = 1
    /\ unique_refs = {}
    /\ min_date = NULL
    /\ max_date = NULL
    /\ date_from = ""
    /\ date_to = ""
    /\ requests = <<>>
    /\ reply = [error |-> FALSE, status |-> 0, body |-> "none", items |-> <<>>]
    /\ route_data_map = <<>>
    /\ sink = [created |-> FALSE, fields |-> <<>>, feats |-> <<>>]
    /\ en_i = 1
    /\ errors = {}
    /\ fatal = "none"

Init == RunInit(JoinLayers)
InitExtract == RunInit(DateLayers)

\* ------------------------------------------------------------- extraction
\* processAlgorithm entry and the field check of the extractor.
Start ==
    /\ pc = "start"
    /\ IF IndexFromName(fields, line_ref_field) = 0
       THEN /\ pc' = "failed"
            /\ fatal' = "field_not_found"
       ELSE /\ pc' = "extract"
            /\ fatal' = fatal
    /\ UNCHANGED <<locVars, layerVars, canceled, extractVars, date_from, date_to,
                   fetchVars, sink, en_i, errors>>

\* The date of one feature: the first candidate field, from position c on,
\* that is in the schema and holds a QDateTime; NULL when there is none.
\* (PickDateAll is the loop without its break: the earliest of the candidates.)
RECURSIVE PickDateAll(_, _, _)
PickDateAll(flds, feat, c) ==
    IF c > Len(DATE_FIELDS) THEN NULL
    ELSE LET later == PickDateAll(flds, feat, c + 1)
             here == IF IndexFromName(flds, DATE_FIELDS[c]) = 0 THEN NULL
                     ELSE Attr(flds, feat, DATE_FIELDS[c])
         IN IF here.t = "dt" /\ (later = NULL \/ here.i < later.i) THEN here
            ELSE later
RECURSIVE PickDate(_, _, _)
PickDate(flds, feat, c) ==
    IF c > Len(DATE_FIELDS) THEN NULL
    ELSE IF IndexFromName(flds, DATE_FIELDS[c]) = 0
         THEN PickDate(flds, feat, c + 1)
         ELSE LET date_value == Attr(flds, feat, DATE_FIELDS[c])
              IN IF date_value # NULL /\ date_value.t = "dt"
                 THEN date_value
                 ELSE PickDate(flds, feat, c + 1)

NewMin(cur, d) ==
    IF d # NULL /\ (cur = NULL \/ d.i < cur.i) THEN d ELSE cur
NewMax(cur, d) ==
    IF d # NULL /\ (cur = NULL \/ d.i > cur.i) THEN d ELSE cur

\* The end of the extractor (date formatting) and the empty-key-set check
\* of processAlgorithm, for the key set refs and the range (lo, hi).
\* (ExtractTailUnchecked is the run without the empty-key-set check.)
ExtractTailUnchecked(refs, lo, hi) ==
    /\ IF lo # NULL /\ hi # NULL
       THEN /\ date_from' = FormatDate(lo)
            /\ date_to' = FormatDate(hi)
       ELSE /\ date_from' = Today
            /\ date_to' = Today
    /\ pc' = "fetch"
    /\ fatal' = fatal
ExtractTail(refs, lo, hi) ==
    /\ IF lo # NULL /\ hi # NULL
       THEN /\ date_from' = FormatDate(lo)
            /\ date_to' = FormatDate(hi)
       ELSE /\ date_from' = Today
            /\ date_to' = Today
    /\ IF refs = {}
       THEN /\ pc' = "failed"
            /\ fatal' = "no_valid_line_refs"
       ELSE /\ pc' = "fetch"
            /\ fatal' = fatal

\* One iteration of the extraction loop whose cancellation poll answers False.
\* (ExtractFeatureSkipsBadRecord leaves the record of a key that does not
\* coerce at once, its date unread.)
ExtractFeatureSkipsBadRecord ==
    /\ pc = "extract"
    /\ ex_i <= Len(features)
    /\ ~canceled
    /\ LET feat == features[ex_i]
           value == Attr(fields, feat, line_ref_field)
           d == PickDate(fields, feat, 1)
       IN IF value # NULL /\ ~PyInt(value).ok
          THEN /\ errors' = errors \cup {"invalid_line_ref"}
               /\ UNCHANGED <<unique_refs, min_date, max_date>>
          ELSE /\ unique_refs' = IF value # NULL
                                 THEN unique_refs \cup {PyInt(value).n}
                                 ELSE unique_refs
               /\ errors' = errors
               /\ min_date' = NewMin(min_date, d)
               /\ max_date' = NewMax(max_date, d)
    /\ ex_i' = ex_i + 1
    /\ UNCHANGED <<locVars, layerVars, pc, canceled, date_from, date_to, fetchVars,
                   sink, en_i, fatal>>
ExtractFeature ==
    /\ pc = "extract"
    /\ ex_i <= Len(features)
    /\ ~canceled
    /\ LET feat == features[ex_i]
           value == Attr(fields, feat, line_ref_field)
           d == PickDate(fields, feat, 1)
       IN /\ IF value # NULL
             THEN IF PyInt(value).ok
                  THEN /\ unique_refs' = unique_refs \cup {PyInt(value).n}
                       /\ errors' = errors
                  ELSE /\ unique_refs' = unique_refs
                       /\ errors' = errors \cup {"invalid_line_ref"}
             ELSE /\ unique_refs' = unique_refs
                  /\ errors' = errors
          /\ min_date' = NewMin(min_date, d)
          /\ max_date' = NewMax(max_date, d)
    /\ ex_i' = ex_i + 1
    /\ UNCHANGED <<locVars, layerVars, pc, canceled, date_from, date_to, fetchVars,
                   sink, en_i, fatal>>

\* The poll of the extraction loop answers True: break, then the tail.
ExtractCancel ==
    /\ pc = "extract"
    /\ ex_i <= Len(features)
    /\ canceled' = TRUE
    /\ ExtractTail(unique_refs, min_date, max_date)
    /\ UNCHANGED <<locVars, layerVars, extractVars, fetchVars, sink, en_i, errors>>

\* The extraction loop has consumed every feature: the tail.
ExtractReturn ==
    /\ pc = "extract"
    /\ ex_i > Len(features)
    /\ ExtractTail(unique_refs, min_date, max_date)
    /\ UNCHANGED <<locVars, layerVars, canceled, extractVars, fetchVars, sink, en_i,
                   errors>>

NextExtract == Start \/ ExtractFeature \/ ExtractCancel \/ ExtractReturn
SpecExtract == InitExtract /\ [][NextExtract]_vars

\* ------------------------------------------------------------------ fetch
\* Items the reference endpoint may return: a line_ref (an integer, a string,
\* null or missing) and the other keys of the route.
PayloadFull ==
    [date |-> StrV("2023-01-05"), operator_ref |-> IntV(3),
     route_short_name |-> StrV("5"), route_long_name |-> StrV("X"),
     route_mkt |-> StrV("5"), route_direction |-> StrV("A"),
     route_alternative |-> StrV(""), agency_name |-> StrV("Egged"),
     route_type |-> StrV("3")]
PayloadSparse ==
    [route_long_name |-> StrV("Y"), route_mkt |-> StrV("7"),
     route_direction |-> NULL, route_desc |-> StrV("stored")]
RouteRecords ==
    { [line_ref |-> IntV(17)] @@ PayloadFull,
      [line_ref |-> IntV(17)] @@ PayloadSparse,
      [line_ref |-> IntV(42)] @@ PayloadFull,
      [line_ref |-> StrV("17")] @@ PayloadSparse,
      PayloadSparse }

\* What the network does with a request: a transport error, an HTTP status,
\* and a body that is malformed, a JSON object or a JSON list of items.
Replies ==
    { [error |-> TRUE, status |-> 0, body |-> "malformed", items |-> <<>>],
      [error |-> FALSE, status |-> 500, body |-> "object", items |-> <<>>],
      [error |-> FALSE, status |-> 200, body |-> "malformed", items |-> <<>>],
      [error |-> FALSE, status |-> 200, body |-> "object", items |-> <<>>] }
    \cup { [error |-> FALSE, status |-> 200, body |-> "list", items |-> d] :
             d \in SeqsUpTo(RouteRecords, MaxResp) }

\* StrideAPIClient._execute_request: raises, or returns the parsed body.
\* (ExecuteRequestNoStatus is the method without its HTTP status check.)
ExecuteRequestNoStatus(r) ==
    IF r.error THEN [raised |-> TRUE, body |-> "none", data |-> <<>>]
    ELSE IF r.body = "malformed" THEN [raised |-> TRUE, body |-> "none", data |-> <<>>]
    ELSE [raised |-> FALSE, body |-> r.body, data |-> r.items]
ExecuteRequest(r) ==
    IF r.error THEN [raised |-> TRUE, body |-> "none", data |-> <<>>]
    ELSE IF r.status # 200 THEN [raised |-> TRUE, body |-> "none", data |-> <<>>]
    ELSE IF r.body = "malformed" THEN [raised |-> TRUE, body |-> "none", data |-> <<>>]
    ELSE [raised |-> FALSE, body |-> r.body, data |-> r.items]

\* StrideAPIClient.fetch_data: a body that is no list is answered as [].
FetchData(r) ==
    LET x == ExecuteRequest(r)
    IN IF x.raised THEN [raised |-> TRUE, data |-> <<>>]
       ELSE IF x.body # "list" THEN [raised |-> FALSE, data |-> <<>>]
       ELSE [raised |-> FALSE, data |-> x.data]

\* sorted(line_refs) as a sequence.
RECURSIVE Sorted(_)
Sorted(S) ==
    IF S = {} THEN <<>>
    ELSE LET m == CHOOSE x \in S : \A y \in S : x <= y
         IN <<m>> \o Sorted(S \ {m})

\* ','.join(str(ref) for ref in refs)
RECURSIVE JoinRefs(_)
JoinRefs(refs) ==
    IF Len(refs) = 0 THEN ""
    ELSE IF Len(refs) = 1 THEN PyStr(IntV(refs[1]))
    ELSE PyStr(IntV(refs[1])) \o "," \o JoinRefs(Tail(refs))

\* The params dict of _fetch_route_data.
RouteParams(line_refs, from, to) ==
    [get_count |-> "false", date_from |-> from, date_to |-> to,
     line_refs |-> JoinRefs(Sorted(line_refs)), order_by |-> "id asc"]

\* An entry of route_data_map: a route dict, or None.
NoRoute == [some |-> FALSE, rec |-> <<>>]
Route(rec) == [some |-> TRUE, rec |-> rec]

\* The loop over the response: the first record of each line_ref is stored.
\* (StoreRoutesLast is the loop without its membership test: the last one stays.)
RECURSIVE StoreRoutesLast(_, _, _)
StoreRoutesLast(data, i, m) ==
    IF i > Len(data) THEN m
    ELSE LET route == data[i]
             line_ref == DictGet(route, "line_ref")
         IN IF line_ref # NULL
            THEN StoreRoutesLast(data, i + 1,
                     [k \in DOMAIN m \cup {line_ref} |->
                        IF k = line_ref THEN Route(route) ELSE m[k]])
            ELSE StoreRoutesLast(data, i + 1, m)
RECURSIVE StoreRoutes(_, _, _)
StoreRoutes(data, i, m) ==
    IF i > Len(data) THEN m
    ELSE LET route == data[i]
             line_ref == DictGet(route, "line_ref")
         IN IF line_ref # NULL /\ line_ref \notin DOMAIN m
            THEN StoreRoutes(data, i + 1,
                     [k \in DOMAIN m \cup {line_ref} |->
                        IF k = line_ref THEN Route(route) ELSE m[k]])
            ELSE StoreRoutes(data, i + 1, m)

\* "Mark missing line_refs as None": every requested key not yet in the map.
MarkMissing(m, line_refs) ==
    [k \in DOMAIN m \cup {IntV(n) : n \in line_refs} |->
       IF k \in DOMAIN m THEN m[k] ELSE NoRoute]

\* "Mark all as None": every requested key is set to None.
MarkAll(m, line_refs) ==
    [k \in DOMAIN m \cup {IntV(n) : n \in line_refs} |->
       IF k \in {IntV(n) : n \in line_refs} THEN NoRoute ELSE m[k]]

\* _fetch_route_data after the request is built: the map and whether the
\* except branch reported an error.
FetchRouteData(line_refs, r) ==
    LET got == FetchData(r)
        empty == [k \in {} |-> NoRoute]
    IN IF got.raised
       THEN [map |-> MarkAll(empty, line_refs), error |-> TRUE]
       ELSE IF Len(got.data) > 0
            THEN [map |-> MarkMissing(StoreRoutes(got.data, 1, empty), line_refs),
                  error |-> FALSE]
            ELSE [map |-> MarkAll(empty, line_refs), error |-> FALSE]

\* The requests _fetch_route_data sends for one call: fetch_data, once.
\* (RequestsPerKey is a fetcher that calls fetch_data once for each key.)
RequestsPerKey(line_refs, from, to) ==
    [i \in 1..Cardinality(line_refs) |->
       [path |-> "/gtfs_routes/list",
        params |-> RouteParams({Sorted(line_refs)[i]}, from, to)]]
RequestsSent(line_refs, from, to) ==
    << [path |-> "/gtfs_routes/list",
        params |-> RouteParams(line_refs, from, to)] >>

\* Step 2 of processAlgorithm: _fetch_route_data, the network answering r.
Fetch ==
    /\ pc = "fetch"
    /\ \E r \in Replies :
         LET res == FetchRouteData(unique_refs, r)
         IN /\ requests' = requests \o RequestsSent(unique_refs, date_from, date_to)
            /\ reply' = r
            /\ route_data_map' = res.map
            /\ errors' = IF res.error THEN errors \cup {"fetch_error"} ELSE errors
    /\ pc' = "sink"
    /\ UNCHANGED <<locVars, layerVars, canceled, extractVars, date_from, date_to, sink,
                   en_i, fatal>>

\* ------------------------------------------------------------------- join
\* The loop over ROUTE_FIELDS of _create_output_sink and _enrich_features:
\* the output fields and the names newly appended, from position i on.
RECURSIVE AppendRouteFields(_, _, _)
AppendRouteFields(output_fields, new_route_fields, i) ==
    IF i > Len(ROUTE_FIELDS)
    THEN [output_fields |-> output_fields, new_route_fields |-> new_route_fields]
    ELSE LET field_name == ROUTE_FIELDS[i][1]
         IN IF IndexFromName(output_fields, field_name) = 0
            THEN AppendRouteFields(Append(output_fields, field_name),
                                   Append(new_route_fields, field_name), i + 1)
            ELSE AppendRouteFields(output_fields, new_route_fields, i + 1)

OutputFields(flds) == AppendRouteFields(flds, <<>>, 1).output_fields
\* (NewRouteFieldsAll is the join's loop without its test of the input fields.)
NewRouteFieldsAll(flds) == [i \in 1..Len(ROUTE_FIELDS) |-> ROUTE_FIELDS[i][1]]
NewRouteFields(flds) == AppendRouteFields(flds, <<>>, 1).new_route_fields

\* _create_output_sink: the sink is created with the output fields.
CreateSink ==
    /\ pc = "sink"
    /\ sink' = [created |-> TRUE, fields |-> OutputFields(fields), feats |-> <<>>]
    /\ pc' = "enrich"
    /\ UNCHANGED <<locVars, layerVars, canceled, extractVars, date_from, date_to,
                   fetchVars, en_i, errors, fatal>>

\* route_data_map.get(key)
MapGet(m, key) == IF key \in DOMAIN m THEN m[key] ELSE NoRoute

\* The lookup of one input feature: its entry of the map, or None.
LookupRoute(flds, lrf, m, feat) ==
    LET line_ref == Attr(flds, feat, lrf)
    IN IF line_ref # NULL /\ PyInt(line_ref).ok
       THEN MapGet(m, IntV(PyInt(line_ref).n))
       ELSE NoRoute

\* "if route_data:" is False for None and for an empty dict.
Truthy(route_data) == route_data.some /\ DOMAIN route_data.rec # {}

\* The calculated route_desc of a route dict.
RouteDesc(rec) ==
    LET route_mkt == DictGetDefault(rec, "route_mkt", StrV(""))
        route_direction == DictGetDefault(rec, "route_direction", StrV(""))
        route_alternative == DictGetDefault(rec, "route_alternative", StrV(""))
    IN PyStr(route_mkt) \o "-" \o PyStr(route_direction) \o "-"
         \o PyStr(route_alternative)

\* The value appended for one new route field.
\* (RouteValueFabricated calculates route_desc before it tests route_data.)
RouteValueFabricated(route_data, field_name) ==
    IF field_name = "route_desc"
    THEN StrV(RouteDesc(IF route_data.some THEN route_data.rec
                        ELSE [x \in {} |-> NULL]))
    ELSE IF Truthy(route_data)
         THEN DictGet(route_data.rec, GTFS_FIELD_MAP(field_name))
         ELSE NULL
RouteValue(route_data, field_name) ==
    IF Truthy(route_data)
    THEN IF field_name = "route_desc"
         THEN StrV(RouteDesc(route_data.rec))
         ELSE DictGet(route_data.rec, GTFS_FIELD_MAP(field_name))
    ELSE NULL

\* The output feature of one input feature.
\* (EnrichOneNoGeometry does not copy the geometry.)
EnrichOneNoGeometry(flds, lrf, m, feat) ==
    LET new_route_fields == NewRouteFields(flds)
        route_data == LookupRoute(flds, lrf, m, feat)
    IN [attrs |-> feat.attrs \o
                  [i \in 1..Len(new_route_fields) |->
                     RouteValue(route_data, new_route_fields[i])],
        geom |-> "none"]
EnrichOne(flds, lrf, m, feat) ==
    LET new_route_fields == NewRouteFields(flds)
        route_data == LookupRoute(flds, lrf, m, feat)
    IN [attrs |-> feat.attrs \o
                  [i \in 1..Len(new_route_fields) |->
                     RouteValue(route_data, new_route_fields[i])],
        geom |-> feat.geom]

\* sink.addFeature for the features the loop iteration produces.
\* (AddFeaturesWithGeometry leaves out a feature that has no geometry.)
AddFeaturesWithGeometry(feats, out) ==
    IF out.geom = "none" THEN feats ELSE Append(feats, out)
AddFeatures(feats, out) == Append(feats, out)

\* One iteration of the join loop whose cancellation poll answers False.
\* (EnrichFeatureNoPoll is the iteration of a loop that does not poll.)
EnrichFeatureNoPoll ==
    /\ pc = "enrich"
    /\ en_i <= Len(features)
    /\ sink' = [sink EXCEPT !.feats =
                  AddFeatures(@, EnrichOne(fields, line_ref_field, route_data_map,
                                           features[en_i]))]
    /\ en_i' = en_i + 1
    /\ UNCHANGED <<locVars, layerVars, pc, canceled, extractVars, date_from, date_to,
                   fetchVars, errors, fatal>>
EnrichFeature ==
    /\ pc = "enrich"
    /\ en_i <= Len(features)
    /\ ~canceled
    /\ sink' = [sink EXCEPT !.feats =
                  AddFeatures(@, EnrichOne(fields, line_ref_field, route_data_map,
                                           features[en_i]))]
    /\ en_i' = en_i + 1
    /\ UNCHANGED <<locVars, layerVars, pc, canceled, extractVars, date_from, date_to,
                   fetchVars, errors, fatal>>

\* The poll of the join loop answers True: break, and the run returns.
EnrichCancel ==
    /\ pc = "enrich"
    /\ en_i <= Len(features)
    /\ canceled' = TRUE
    /\ pc' = "done"
    /\ UNCHANGED <<locVars, layerVars, extractVars, date_from, date_to, fetchVars, sink,
                   en_i, errors, fatal>>

\* The join loop has consumed every feature: the run returns its output.
EnrichReturn ==
    /\ pc = "enrich"
    /\ en_i > Len(features)
    /\ pc' = "done"
    /\ UNCHANGED <<locVars, layerVars, canceled, extractVars, date_from, date_to,
                   fetchVars, sink, en_i, errors, fatal>>

Next ==
    \/ Start
    \/ ExtractFeature
    \/ ExtractCancel
    \/ ExtractReturn
    \/ Fetch
    \/ CreateSink
    \/ EnrichFeature
    \/ EnrichCancel
    \/ EnrichReturn

Spec == Init /\ [][Next]_vars


\* ----------------------------------------------------------- GetLocations
\* Largest number of items of a JSON list the location endpoint returns.
MaxItems == 2

\* GetLocations.FIELD_DEFINITIONS: (name, type) in declared order.
FIELD_DEFINITIONS ==
    << <<"id", "LongLong">>, <<"snapshot_id", "LongLong">>,
       <<"ride_stop_id", "LongLong">>, <<"recorded_at", "DateTime">>,
       <<"lon", "Double">>, <<"lat", "Double">>, <<"bearing", "Int">>,
       <<"velocity", "Int">>, <<"dist_from_start", "Int">>,
       <<"dist_from_stop", "Double">>, <<"siri_route_id", "Int">>,
       <<"siri_line_ref", "Int">>, <<"siri_operator_ref", "Int">>,
       <<"siri_ride_id", "LongLong">>, <<"journey_ref", "String">>,
       <<"scheduled_start", "DateTime">>, <<"vehicle_ref", "String">> >>

\* GetLocations.KEY_MAP: (wire key, field name) in the order of the dict.
KEY_MAP ==
    << <<"siri_snapshot_id", "snapshot_id">>,
       <<"siri_ride_stop_id", "ride_stop_id">>,
       <<"recorded_at_time", "recorded_at">>,
       <<"distance_from_journey_start", "dist_from_start">>,
       <<"distance_from_siri_ride_stop_meters", "dist_from_stop">>,
       <<"siri_snapshot__snapshot_id", "snapshot_id">>,
       <<"siri_route__id", "siri_route_id">>,
       <<"siri_route__line_ref", "siri_line_ref">>,
       <<"siri_route__operator_ref", "siri_operator_ref">>,
       <<"siri_ride__id", "siri_ride_id">>,
       <<"siri_ride__journey_ref", "journey_ref">>,
       <<"siri_ride__scheduled_start_time", "scheduled_start">>,
       <<"siri_ride__vehicle_ref", "vehicle_ref">> >>

\* next((k for k, v in KEY_MAP.items() if v == name), name): the first wire
\* key of the field, or the field's own name when it has none.
OriginalKey(name) ==
    LET hits == {n \in 1..Len(KEY_MAP) : KEY_MAP[n][2] = name}
    IN IF hits = {} THEN name
       ELSE KEY_MAP[CHOOSE n \in hits : \A m \in hits : n <= m][1]

\* A Python float, in tenths.
FloatV(tenths) == V("float", tenths, "")

\* The tenths whose decimal text float() is asked to parse in this model.
FloatRange == 320..349
FloatText(n) == Decimal(n \div 10) \o "." \o Digit(n % 10)
FloatTexts == [n \in FloatRange |-> FloatText(n)]

\* float(value): [ok, n]; a ValueError or TypeError is ok = FALSE.
PyFloat(v) ==
    CASE v.t = "float" -> [ok |-> TRUE, n |-> v.i]
      [] v.t = "int" -> [ok |-> TRUE, n |-> v.i * 10]
      [] v.t = "str" ->
           IF \E n \in FloatRange : FloatTexts[n] = v.s
           THEN [ok |-> TRUE, n |-> CHOOSE n \in FloatRange : FloatTexts[n] = v.s]
           ELSE [ok |-> FALSE, n |-> 0]
      [] OTHER -> [ok |-> FALSE, n |-> 0]

\* The (day, hour) pairs whose ISO text fromString is asked to parse here.
IsoStamps == {<<5, 8>>, <<2, 23>>}
IsoText(st) ==
    "2023-01-0" \o Digit(st[1]) \o "T"
      \o (IF st[2] < 10 THEN "0" \o Decimal(st[2]) ELSE Decimal(st[2])) \o ":00:00"

\* QDateTime.fromString(val, Qt.DateFormat.ISODate): an invalid QDateTime
\* for a text that is no ISO date.
FromIso(val) ==
    IF \E st \in IsoStamps : IsoText(st) = val.s
    THEN LET st == CHOOSE x \in IsoStamps : IsoText(x) = val.s IN DtV(st[1], st[2])
    ELSE V("dt_invalid", 0, "")

\* transform.transform(QgsPointXY(lon, lat)): the EPSG:2039 point of the
\* EPSG:4326 point (lon, lat), both in tenths.
TransformPoint(lon, lat) == [crs |-> "EPSG:2039", of |-> <<lon, lat>>]

\* The attribute of field number n of FIELD_DEFINITIONS for an item.
FieldValue(item, n) ==
    LET val == DictGet(item, OriginalKey(FIELD_DEFINITIONS[n][1]))
    IN IF val = NULL THEN NULL
       ELSE IF FIELD_DEFINITIONS[n][2] = "DateTime" THEN FromIso(val)
       ELSE val

\* _create_feature: the feature of an item, or None.
\* A feature's geometry when none was set.
NoPoint == [crs |-> "none", of |-> <<>>]
NoFeature == [some |-> FALSE, geom |-> NoPoint, attrs |-> <<>>]
\* (CreateFeatureUnlocated returns the feature without geometry where the
\* coordinates do not convert.)
CreateFeatureUnlocated(item) ==
    IF DictGet(item, "lon") # NULL /\ DictGet(item, "lat") # NULL
    THEN [some |-> TRUE,
          geom |-> IF PyFloat(item["lon"]).ok /\ PyFloat(item["lat"]).ok
                   THEN TransformPoint(PyFloat(item["lon"]).n, PyFloat(item["lat"]).n)
                   ELSE NoPoint,
          attrs |-> [n \in 1..Len(FIELD_DEFINITIONS) |-> FieldValue(item, n)]]
    ELSE NoFeature
CreateFeature(item) ==
    IF DictGet(item, "lon") # NULL /\ DictGet(item, "lat") # NULL
    THEN IF PyFloat(item["lon"]).ok /\ PyFloat(item["lat"]).ok
         THEN [some |-> TRUE,
               geom |-> TransformPoint(PyFloat(item["lon"]).n, PyFloat(item["lat"]).n),
               attrs |-> [n \in 1..Len(FIELD_DEFINITIONS) |-> FieldValue(item, n)]]
         ELSE NoFeature
    ELSE NoFeature

\* Items the location endpoint may return: lon and lat (a number, a text,
\* null or missing) and other wire keys.
ABSENT == V("absent", 0, "")
Only(key, v) == IF v = ABSENT THEN [k \in {} |-> NULL] ELSE [k \in {key} |-> v]
LonVals == {ABSENT, NULL, FloatV(348), StrV("34.8"), StrV("abc")}
LatVals == {NULL, FloatV(321), StrV("abc")}
LocA ==
    [id |-> IntV(1), siri_snapshot_id |-> IntV(7),
     recorded_at_time |-> StrV("2023-01-05T08:00:00"),
     siri_route__line_ref |-> IntV(17), bearing |-> IntV(90)]
LocB ==
    [id |-> IntV(2), siri_snapshot__snapshot_id |-> IntV(8),
     recorded_at |-> StrV("2023-01-02T23:00:00"), velocity |-> NULL]
LocC ==
    [id |-> IntV(3), siri_snapshot_id |-> IntV(7),
     siri_snapshot__snapshot_id |-> IntV(8),
     siri_ride__scheduled_start_time |-> StrV("2023-01-02T23:00:00")]
LocItems ==
    { Only("lon", lon) @@ Only("lat", lat) @@ LocA : lon \in LonVals, lat \in LatVals }
    \cup { [lon |-> FloatV(348), lat |-> FloatV(321)] @@ p : p \in {LocB, LocC} }

\* What the network does with the request of the location run.
LocReplies ==
    { [error |-> TRUE, status |-> 0, body |-> "malformed", items |-> <<>>],
      [error |-> FALSE, status |-> 500, body |-> "object", items |-> <<>>],
      [error |-> FALSE, status |-> 200, body |-> "malformed", items |-> <<>>],
      [error |-> FALSE, status |-> 200, body |-> "object", items |-> <<>>] }
    \cup { [error |-> FALSE, status |-> 200, body |-> "list", items |-> d] :
             d \in SeqsUpTo(LocItems, MaxItems) }

\* The state when GetLocations.processAlgorithm is entered, its request
\* parameters built: no enrichment run is under way.
InitLoc ==
    /\ l_pc = "start"
    /\ l_reply = [error |-> FALSE, status |-> 0, body |-> "none", items |-> <<>>]
    /\ l_data = <<>>
    /\ l_i = 1
    /\ l_sink = [created |-> FALSE, feats |-> <<>>]
    /\ l_canceled = FALSE
    /\ l_fatal = "none"
    /\ fields = <<>>
    /\ features = <<>>
    /\ line_ref_field = "siri_line_ref"
    /\ pc = "idle"
    /\ canceled = FALSE
    /\ ex_i = 1
    /\ unique_refs = {}
    /\ min_date = NULL
    /\ max_date = NULL
    /\ date_from = ""
    /\ date_to = ""
    /\ requests = <<>>
    /\ reply = [error |-> FALSE, status |-> 0, body |-> "none", items |-> <<>>]
    /\ route_data_map = <<>>
    /\ sink = [created |-> FALSE, fields |-> <<>>, feats |-> <<>>]
    /\ en_i = 1
    /\ errors = {}
    /\ fatal = "none"

enrichVars == <<fields, features, line_ref_field, pc, canceled, ex_i,
                unique_refs, min_date, max_date, date_from, date_to, requests,
                reply, route_data_map, sink, en_i, errors, fatal>>

\* api_client.fetch_data(api_path, params) in processAlgorithm: the
\* exception is not caught there.
\* (LocDownloadTolerant catches it and goes on with no data.)
LocDownloadTolerant(r) ==
    IF FetchData(r).raised THEN [raised |-> FALSE, data |-> <<>>] ELSE FetchData(r)
LocDownload(r) == FetchData(r)

\* Phase 1 of processAlgorithm: the download, the network answering r.
LocFetch ==
    /\ l_pc = "start"
    /\ \E r \in LocReplies :
         LET got == LocDownload(r)
         IN /\ l_reply' = r
            /\ IF got.raised
               THEN /\ l_pc' = "failed"
                    /\ l_fatal' = "request_failed"
                    /\ l_data' = l_data
               ELSE IF Len(got.data) = 0
                    THEN /\ l_pc' = "done"
                         /\ l_fatal' = l_fatal
                         /\ l_data' = l_data
                    ELSE /\ l_pc' = "sink"
                         /\ l_fatal' = l_fatal
                         /\ l_data' = got.data
    /\ UNCHANGED <<l_i, l_sink, l_canceled, enrichVars>>

\* _create_output_sink of GetLocations.
LocCreateSink ==
    /\ l_pc = "sink"
    /\ l_sink' = [created |-> TRUE, feats |-> <<>>]
    /\ l_pc' = "process"
    /\ UNCHANGED <<l_reply, l_data, l_i, l_canceled, l_fatal, enrichVars>>

\* sink.addFeature(feature) of _process_features.
\* (LocAddFeatureFirst puts the feature in front of those written.)
LocAddFeatureFirst(feats, feature) == <<feature>> \o feats
LocAddFeature(feats, feature) == Append(feats, feature)

\* One iteration of the _process_features loop whose poll answers False.
LocProcessItem ==
    /\ l_pc = "process"
    /\ l_i <= Len(l_data)
    /\ ~l_canceled
    /\ LET feature == CreateFeature(l_data[l_i])
       IN l_sink' = IF feature.some
                    THEN [l_sink EXCEPT !.feats =
                            LocAddFeature(@, [geom |-> feature.geom,
                                              attrs |-> feature.attrs])]
                    ELSE l_sink
    /\ l_i' = l_i + 1
    /\ UNCHANGED <<l_pc, l_reply, l_data, l_canceled, l_fatal, enrichVars>>

\* The poll of the _process_features loop answers True: break, return.
LocCancel ==
    /\ l_pc = "process"
    /\ l_i <= Len(l_data)
    /\ l_canceled' = TRUE
    /\ l_pc' = "done"
    /\ UNCHANGED <<l_reply, l_data, l_i, l_sink, l_fatal, enrichVars>>

\* The loop has consumed every item: processAlgorithm returns the output.
LocReturn ==
    /\ l_pc = "process"
    /\ l_i > Len(l_data)
    /\ l_pc' = "done"
    /\ UNCHANGED <<l_reply, l_data, l_i, l_sink, l_canceled, l_fatal, enrichVars>>

NextLoc ==
    \/ LocFetch
    \/ LocCreateSink
    \/ LocProcessItem
    \/ LocCancel
    \/ LocReturn

SpecLoc == InitLoc /\ [][NextLoc]_vars

\* ================================================================= claims
\* Vocabulary of the claims, stated apart from the operators of the run.

\* The run has left the fetch stage.
Fetched == pc \in {"sink", "enrich", "done"}

\* The join key of input feature i.
KeyOf(i) == features[i].attrs[CHOOSE c \in 1..Len(fields) : fields[c] = line_ref_field]

\* The keys presented to the fetcher, as map keys.
PresentedKeys == {IntV(n) : n \in unique_refs}

\* The integer a join-key value stands for, when it stands for one.
Coercible(v) == v.t = "int" \/ (v.t = "str" /\ v.s \in DecimalSet)
CoercedKey(v) ==
    IF v.t = "int" THEN IntV(v.i)
    ELSE IntV(CHOOSE n \in ParseRange : DecimalTexts[n] = v.s)

\* Input feature i has a match: its key coerces and is mapped to a record.
Matched(i) ==
    /\ KeyOf(i) # NULL
    /\ Coercible(KeyOf(i))
    /\ CoercedKey(KeyOf(i)) \in DOMAIN route_data_map
    /\ route_data_map[CoercedKey(KeyOf(i))].some
MatchOf(i) == route_data_map[CoercedKey(KeyOf(i))].rec

\* The names of ROUTE_FIELDS the input schema lacks, in declared order.
AddedNames ==
    SelectSeq([i \in 1..Len(ROUTE_FIELDS) |-> ROUTE_FIELDS[i][1]],
              LAMBDA n : n \notin Range(fields))

\* The value output feature i carries for the j-th added field.
Added(i, j) == sink.feats[i].attrs[Len(fields) + j]
AddedCount(i) == Len(sink.feats[i].attrs) - Len(fields)
AllAddedNull(i) == \A j \in 1..AddedCount(i) : Added(i, j) = NULL

\* The network's answer makes fetch_data raise.
ReplyFails(r) == r.error \/ r.status # 200 \/ r.body = "malformed"

\* Output feature i is built from input feature i.
FromInput(i) ==
    /\ sink.feats[i].geom = features[i].geom
    /\ SubSeq(sink.feats[i].attrs, 1, Len(fields)) = features[i].attrs

\* ---- C1
\* C1, as the claim states it: a run that returns an output has written as
\* many features as the input layer holds.
C1_CountEqualsInput ==
    pc = "done" => Len(sink.feats) = Len(features)

\* C1, amended: the join writes exactly one output feature per input feature
\* it processes, in input order, none dropped and none duplicated (a null or
\* non-coercible key or a missing geometry included); a run that returns an
\* output has written as many features as the input holds exactly when no
\* cancellation poll answered True, and a proper prefix otherwise.
C1_OnePerProcessedFeature ==
    /\ Len(sink.feats) = en_i - 1
    /\ Len(sink.feats) <= Len(features)
    /\ \A i \in 1..Len(sink.feats) : FromInput(i)
    /\ pc = "done" => (Len(sink.feats) = Len(features) <=> ~canceled)

C1_Witness ==
    /\ pc = "done"
    /\ ~canceled
    /\ Len(features) = 2
    /\ Len(sink.feats) = 2
    /\ KeyOf(1) = StrV("x")
    /\ features[1].geom = "none"
    /\ KeyOf(2) = NULL \/ KeyOf(2) = IntV(17)
    /\ FromInput(1)

\* ---- C2
\* C2: after the fetch, the key set of the reference map is exactly the key
\* set presented to the fetcher, whatever the endpoint answered.
C2_MapKeysArePresentedKeys ==
    Fetched => DOMAIN route_data_map = PresentedKeys

\* ---- C3
\* C3, as the claim states it: after a failed fetch the error is reported,
\* every presented key is mapped to not-found, the run does not abort, and
\* the finished run has emitted every input feature with null added fields.
C3_FailedFetchEmitsAll ==
    (Len(requests) > 0 /\ ReplyFails(reply)) =>
        /\ "fetch_error" \in errors
        /\ DOMAIN route_data_map = PresentedKeys
        /\ \A k \in DOMAIN route_data_map : ~route_data_map[k].some
        /\ Fetched /\ fatal = "none"
        /\ \A i \in 1..Len(sink.feats) : AllAddedNull(i)
        /\ pc = "done" => Len(sink.feats) = Len(features)

\* C3, amended: after a failed fetch the error is reported, every presented
\* key is mapped to not-found, the run does not abort but goes on to the
\* join, every feature the join emits has its added fields null, and the
\* finished run has emitted every input feature unless a cancellation poll
\* answered True.
C3_FailedFetchTolerated ==
    (Len(requests) > 0 /\ ReplyFails(reply)) =>
        /\ "fetch_error" \in errors
        /\ DOMAIN route_data_map = PresentedKeys
        /\ \A k \in DOMAIN route_data_map : ~route_data_map[k].some
        /\ Fetched /\ fatal = "none"
        /\ \A i \in 1..Len(sink.feats) : AllAddedNull(i) /\ AddedCount(i) > 0
        /\ (pc = "done" /\ ~canceled) => Len(sink.feats) = Len(features)

C3_Witness ==
    /\ pc = "done"
    /\ ~canceled
    /\ ~reply.error /\ reply.status = 500
    /\ unique_refs = {17, 42}
    /\ Len(sink.feats) = 2
    /\ AllAddedNull(1) /\ AllAddedNull(2)

\* ---- C4
\* C4: of the records of a response that share a line_ref, the map holds the
\* one that comes first in the response.
C4_FirstWins ==
    (Fetched /\ ~ReplyFails(reply) /\ reply.body = "list") =>
        \A i \in 1..Len(reply.items) :
            LET lr == IF "line_ref" \in DOMAIN reply.items[i]
                      THEN reply.items[i].line_ref ELSE NULL
                first == \A j \in 1..(i - 1) :
                             \/ "line_ref" \notin DOMAIN reply.items[j]
                             \/ reply.items[j].line_ref # lr
            IN (lr # NULL /\ first) =>
                   /\ lr \in DOMAIN route_data_map
                   /\ route_data_map[lr].some
                   /\ route_data_map[lr].rec = reply.items[i]

C4_Witness ==
    /\ Fetched
    /\ reply.body = "list"
    /\ Len(reply.items) = 2
    /\ reply.items[1] = [line_ref |-> IntV(17)] @@ PayloadSparse
    /\ reply.items[2] = [line_ref |-> IntV(17)] @@ PayloadFull
    /\ route_data_map[IntV(17)].rec = reply.items[1]

\* ---- C5
\* C5: an output feature whose input feature has no match (its key is null,
\* does not coerce, is not in the map or is mapped to not-found) carries
\* null in every added field, route_desc included.
C5_NoMatchAllNull ==
    \A i \in 1..Len(sink.feats) :
        ~Matched(i) => (AllAddedNull(i) /\ AddedCount(i) = Len(AddedNames))

C5_Witness ==
    /\ pc = "done"
    /\ Len(sink.feats) = 2
    /\ KeyOf(1) = StrV("x") /\ ~Matched(1) /\ AllAddedNull(1)
    /\ Matched(2) /\ ~AllAddedNull(2)
    /\ \E j \in 1..Len(AddedNames) : AddedNames[j] = "route_desc"

\* ---- C6
\* A part of route_desc as the claim has it: the text of the sub-field, and
\* the empty string when the key is missing or its value is null.
DescPart(rec, key) ==
    IF key \in DOMAIN rec /\ rec[key] # NULL THEN rec[key].s ELSE ""

\* C6: for every matched record the added route_desc is route_mkt,
\* route_direction and route_alternative of the reference record joined with
\* "-", a missing or null sub-field counting as the empty string.
C6_RouteDescJoinsParts ==
    \A i \in 1..Len(sink.feats) :
        Matched(i) =>
            \A j \in 1..Len(AddedNames) :
                AddedNames[j] = "route_desc" =>
                    Added(i, j) = StrV(DescPart(MatchOf(i), "route_mkt") \o "-"
                                       \o DescPart(MatchOf(i), "route_direction") \o "-"
                                       \o DescPart(MatchOf(i), "route_alternative"))

\* ---- C7
\* The key of the reference record an added field is read from.
Renamed(n) ==
    IF n = "siri_line_ref" THEN "line_ref"
    ELSE IF n = "siri_operator_ref" THEN "operator_ref"
    ELSE n

\* C7: for every matched record each added field other than route_desc holds
\* the value the reference record carries under the renamed key, or null
\* when the record has no value there.
C7_MatchedCopiesRenamed ==
    LET names == AddedNames
    IN \A i \in 1..Len(sink.feats) :
         Matched(i) =>
             LET rec == MatchOf(i)
             IN /\ AddedCount(i) = Len(names)
                /\ \A j \in 1..Len(names) :
                       names[j] # "route_desc" =>
                           Added(i, j) = IF Renamed(names[j]) \in DOMAIN rec
                                         THEN rec[Renamed(names[j])]
                                         ELSE NULL

\* Keys {17, 42}, a response holding line_ref 17 only: the record of key 17
\* receives its values, the record of key 42 nulls.
C7_Witness ==
    /\ pc = "done"
    /\ fields = <<"line_ref", "begin", "agency_name">>
    /\ unique_refs = {17, 42}
    /\ reply.items = << [line_ref |-> IntV(17)] @@ PayloadFull >>
    /\ Len(sink.feats) = 2
    /\ KeyOf(1) = IntV(17) /\ KeyOf(2) = IntV(42)
    /\ Matched(1) /\ ~Matched(2)
    /\ AddedNames[2] = "siri_line_ref" /\ Added(1, 2) = IntV(17)
    /\ AddedNames[3] = "siri_operator_ref" /\ Added(1, 3) = IntV(3)
    /\ AddedNames[5] = "route_long_name" /\ Added(1, 5) = StrV("X")
    /\ AllAddedNull(2)

\* ---- C8
\* The extractor has returned.
Extracted == pc \in {"fetch", "failed"} /\ fatal # "field_not_found"

\* The time stamp of input feature i: the value of the first candidate field
\* that is in the schema and holds a time stamp; NULL when there is none.
TimestampOf(i) ==
    LET col(c) == CHOOSE p \in 1..Len(fields) : fields[p] = DATE_FIELDS[c]
        cands == {c \in 1..Len(DATE_FIELDS) :
                    /\ DATE_FIELDS[c] \in Range(fields)
                    /\ features[i].attrs[col(c)].t = "dt"}
    IN IF cands = {} THEN NULL
       ELSE features[i].attrs[col(CHOOSE c \in cands : \A d \in cands : c <= d)]

\* The time stamps of the first n input features.
Stamps(n) ==
    LET ts == [k \in 1..n |-> TimestampOf(k)]
    IN {ts[i].i : i \in {k \in 1..n : ts[k] # NULL}}
Least(S) == CHOOSE x \in S : \A y \in S : x <= y
Greatest(S) == CHOOSE x \in S : \A y \in S : x >= y

\* C8, as the claim states it: date_from and date_to are the minimum and the
\* maximum of the per-record time stamps over all records.
C8_RangeOverAllRecords ==
    (Extracted /\ Stamps(Len(features)) # {}) =>
        /\ date_from = FormatDate(V("dt", Least(Stamps(Len(features))), ""))
        /\ date_to = FormatDate(V("dt", Greatest(Stamps(Len(features))), ""))

\* C8, amended: date_from and date_to are the minimum and the maximum of the
\* per-record time stamps (the first candidate field in the order
\* recorded_at, begin, end, scheduled_start that is in the schema and holds a
\* time stamp) over the records scanned, whatever their order; the records
\* scanned are all records unless a cancellation poll answered True.
C8_RangeOverScannedRecords ==
    Extracted =>
        /\ Stamps(ex_i - 1) # {} =>
             /\ date_from = FormatDate(V("dt", Least(Stamps(ex_i - 1)), ""))
             /\ date_to = FormatDate(V("dt", Greatest(Stamps(ex_i - 1)), ""))
        /\ ~canceled => ex_i - 1 = Len(features)

\* Time stamps 2023-01-05, 2023-01-02, 2023-01-09 in this order, the second
\* record holding an earlier date in a later candidate field.
C8_Witness ==
    /\ pc = "fetch"
    /\ ~canceled
    /\ fields = <<"line_ref", "recorded_at", "begin">>
    /\ features = << DateFeature(DtV(5, 8), NULL), DateFeature(DtV(2, 10), DtV(1, 0)),
                     DateFeature(DtV(9, 0), NULL) >>
    /\ date_from = "2023-01-02"
    /\ date_to = "2023-01-09"

\* ---- C9
\* The keys of S as decimal numbers in ascending order, separated by commas.
RECURSIVE KeyList(_)
KeyList(S) ==
    IF S = {} THEN ""
    ELSE LET hi == Greatest(S)
         IN IF S = {hi} THEN Decimal(hi)
            ELSE KeyList(S \ {hi}) \o "," \o Decimal(hi)

\* C9: a run issues no request before its fetch stage and exactly one in it,
\* to /gtfs_routes/list, whose line_refs lists every extracted key once in
\* ascending order, with the extracted date_from and date_to.
C9_OneBatchRequest ==
    /\ Len(requests) = (IF Fetched THEN 1 ELSE 0)
    /\ \A q \in 1..Len(requests) :
           /\ requests[q].path = "/gtfs_routes/list"
           /\ requests[q].params.line_refs = KeyList(unique_refs)
           /\ requests[q].params.date_from = date_from
           /\ requests[q].params.date_to = date_to

C9_Witness ==
    /\ pc = "done"
    /\ unique_refs = {5, 17}
    /\ Len(requests) = 1
    /\ requests[1].params.line_refs = "5,17"
    /\ requests[1].params.date_from = "2023-01-05"
    /\ requests[1].params.date_to = "2023-01-09"

\* ---- C10
\* The join-key field is not in the input schema.
FieldAbsent == \A c \in 1..Len(fields) : fields[c] # line_ref_field

\* C10: a run whose join-key field is absent, or whose extracted key set is
\* empty, ends with a fatal error; a failed run has issued no request and
\* created and written no output; a request is issued only after both fatal
\* checks passed, and output exists only after the request.
C10_FatalBeforeFetch ==
    /\ (pc # "start" /\ FieldAbsent) =>
           (pc = "failed" /\ fatal = "field_not_found")
    /\ (pc \notin {"start", "extract"} /\ ~FieldAbsent /\ unique_refs = {}) =>
           (pc = "failed" /\ fatal = "no_valid_line_refs")
    /\ pc = "failed" =>
           (fatal # "none" /\ requests = <<>> /\ ~sink.created /\ sink.feats = <<>>)
    /\ Len(requests) > 0 => (~FieldAbsent /\ unique_refs # {} /\ fatal = "none")
    /\ (sink.created \/ sink.feats # <<>>) => Len(requests) > 0

C10_Witness ==
    /\ pc = "failed"
    /\ fatal = "no_valid_line_refs"
    /\ Len(features) = 2
    /\ ex_i = 3
    /\ KeyOf(1) = StrV("x") /\ KeyOf(2) = NULL
    /\ requests = <<>>
    /\ ~sink.created

Scanned == 1..(ex_i - 1)

\* C15: a key that does not coerce is not fatal: the failure is reported,
\* the value is left out of the key set, the record's time stamp takes part
\* in the date range and the loop goes on with the next record; the key set
\* is exactly the integer coercions of the non-null keys that coerce, over
\* the records the extractor went through.
C15_BadKeyNotFatal ==
    ~FieldAbsent =>
        LET stamps == Stamps(ex_i - 1)
            keys == [k \in Scanned |-> KeyOf(k)]
        IN /\ unique_refs =
                {CoercedKey(keys[i]).i :
                   i \in {k \in Scanned : keys[k] # NULL /\ Coercible(keys[k])}}
           /\ ("invalid_line_ref" \in errors) <=>
                (\E k \in Scanned : keys[k] # NULL /\ ~Coercible(keys[k]))
           /\ fatal = "no_valid_line_refs" => unique_refs = {}
           /\ fatal \in {"none", "no_valid_line_refs"}
           /\ IF stamps = {}
              THEN min_date = NULL /\ max_date = NULL
              ELSE /\ min_date = V("dt", Least(stamps), "")
                   /\ max_date = V("dt", Greatest(stamps), "")
           /\ (~canceled /\ pc \notin {"start", "extract"}) => ex_i = Len(features) + 1

C15_Witness ==
    /\ pc = "fetch"
    /\ ~canceled
    /\ ~FieldAbsent
    /\ Len(features) = 2
    /\ KeyOf(1) = StrV("x")
    /\ KeyOf(2) = IntV(17)
    /\ unique_refs = {17}
    /\ "invalid_line_ref" \in errors
    /\ min_date = DtV(1, 12)
    /\ date_from = "2023-01-01"

\* ---- C16
\* What the stages have accumulated: the keys, the date range, the output.
Accumulated == <<ex_i, unique_refs, min_date, max_date, en_i, sink.feats>>

\* C16: from the step at which a poll sees the cancellation on, no stage
\* processes a record: the keys, the date range and the features written
\* stay what they were, the features a prefix of the input in input order;
\* a cancellation in the extraction loop ends the run with a fatal error
\* when the key set is empty and passes it to the fetch otherwise; and the
\* fetch step, once entered, issues its request whatever the signal.
C16_StopsAtCancellation ==
    /\ [][canceled' => Accumulated' = Accumulated]_vars
    /\ [][(pc = "extract" /\ canceled') =>
            IF unique_refs = {}
            THEN pc' = "failed" /\ fatal' = "no_valid_line_refs" /\ requests' = <<>>
            ELSE pc' = "fetch" /\ fatal' = "none"]_vars
    /\ [][pc = "fetch" => (pc' = "sink" /\ Len(requests') = Len(requests) + 1)]_vars
    /\ [](/\ Len(sink.feats) < en_i
          /\ en_i <= Len(features) + 1
          /\ \A i \in 1..Len(sink.feats) : FromInput(i))

\* A run cancelled after the first of two records of the extraction, whose
\* key went on to the fetch, and whose join wrote nothing.
C16_Witness ==
    /\ pc = "done"
    /\ canceled
    /\ Len(features) = 2
    /\ ex_i = 2
    /\ unique_refs = {17}
    /\ Len(requests) = 1
    /\ en_i = 1
    /\ sink.feats = <<>>

\* ---- C17
\* What the join stage reads: the input layer and the reference map.
JoinInputs == <<fields, features, line_ref_field, route_data_map>>

\* C17: every output feature carries the input feature's values of the
\* original fields, in their order, and its geometry; the steps of the join
\* stage leave the input layer and the reference map as they were, the map
\* being written by the fetch step alone.
C17_JoinReadsOnly ==
    /\ [](\A i \in 1..Len(sink.feats) :
            /\ \A c \in 1..Len(fields) :
                 sink.feats[i].attrs[c] = features[i].attrs[c]
            /\ sink.feats[i].geom = features[i].geom)
    /\ [][(pc = "sink" \/ pc = "enrich") => JoinInputs' = JoinInputs]_vars
    /\ [][pc # "fetch" => route_data_map' = route_data_map]_vars

\* A finished join of two features, one with a geometry and a match and one
\* without either.
C17_Witness ==
    /\ pc = "done"
    /\ ~canceled
    /\ Len(sink.feats) = 2
    /\ Matched(1)
    /\ features[1].geom = "point_a"
    /\ features[2].geom = "none"
    /\ DOMAIN route_data_map # {}

\* -------------------------------------------------- claims on GetLocations
\* The items the loop of _process_features has gone through.
Processed == SubSeq(l_data, 1, l_i - 1)

\* The item has both coordinates, non-null and convertible by float().
HasCoordinate(item, key) == key \in DOMAIN item /\ item[key] # NULL
CarriesBoth(item) == HasCoordinate(item, "lon") /\ HasCoordinate(item, "lat")
Located(item) ==
    /\ CarriesBoth(item)
    /\ PyFloat(item["lon"]).ok
    /\ PyFloat(item["lat"]).ok

\* The position of a field in FIELD_DEFINITIONS.
FieldIndex(name) == CHOOSE n \in 1..Len(FIELD_DEFINITIONS) : FIELD_DEFINITIONS[n][1] = name

\* Output feature f shows the id and the coordinates of the item.
MadeFrom(f, item) ==
    /\ f.attrs[FieldIndex("id")] = item["id"]
    /\ f.attrs[FieldIndex("lon")] = item["lon"]
    /\ f.attrs[FieldIndex("lat")] = item["lat"]

\* The output is, feature by feature, made from the sequence of items.
OutputIs(items) ==
    /\ Len(l_sink.feats) = Len(items)
    /\ \A j \in 1..Len(items) : MadeFrom(l_sink.feats[j], items[j])

\* C11: when the call of the location run fails (network error, status
\* other than 200, malformed JSON) the run aborts with an error, and no
\* sink is created and no feature written.
C11_FailedCallAborts ==
    (l_pc # "start" /\ ReplyFails(l_reply)) =>
        /\ l_pc = "failed"
        /\ l_fatal = "request_failed"
        /\ ~l_sink.created
        /\ l_sink.feats = <<>>

C11_Witness ==
    /\ l_pc = "failed"
    /\ l_reply.status = 500
    /\ ~l_reply.error

\* C12 as stated: the output of a finished run is the subsequence of the
\* response items carrying both coordinates, in response order.
C12_KeepsAllWithCoordinates ==
    l_pc = "done" => OutputIs(SelectSeq(l_data, CarriesBoth))

\* C12: the output is, in response order, the subsequence of the items
\* processed before a cancellation whose lon and lat are both non-null and
\* convert to numbers; an item missing both is excluded without an error.
C12_KeepsLocatedInOrder ==
    /\ OutputIs(SelectSeq(Processed, Located))
    /\ l_pc \in {"process", "done"} => l_fatal = "none"

C12_Witness ==
    /\ l_pc = "done"
    /\ ~l_canceled
    /\ Len(l_data) = 2
    /\ Len(l_sink.feats) = 2
    /\ l_data[1]["id"] # l_data[2]["id"]

\* C13 as stated: for every output feature and every entry of KEY_MAP, an
\* item carrying the wire key gives the field that value (parsed, for a
\* DateTime field), and a field none of whose wire keys is in the item is
\* null.
WireKeys(name) == {KEY_MAP[n][1] : n \in {m \in 1..Len(KEY_MAP) : KEY_MAP[m][2] = name}}
WireValue(n, val) == IF FIELD_DEFINITIONS[n][2] = "DateTime" THEN FromIso(val) ELSE val
C13_EveryWireKeyMapped ==
    LET kept == SelectSeq(Processed, Located)
    IN \A j \in 1..Len(l_sink.feats) : \A m \in 1..Len(KEY_MAP) :
         LET n == FieldIndex(KEY_MAP[m][2])
         IN /\ (KEY_MAP[m][1] \in DOMAIN kept[j] /\ kept[j][KEY_MAP[m][1]] # NULL) =>
                 l_sink.feats[j].attrs[n] = WireValue(n, kept[j][KEY_MAP[m][1]])
            /\ WireKeys(KEY_MAP[m][2]) \cap DOMAIN kept[j] = {} =>
                 l_sink.feats[j].attrs[n] = NULL

\* C18 as stated: an item of the response is emitted if and only if both
\* coordinates are non-null and convert to numbers.
C18_EmittedIffLocated ==
    l_pc = "done" =>
        Len(l_sink.feats) = Cardinality({k \in 1..Len(l_data) : Located(l_data[k])})

\* C18: among the items processed before a cancellation, an item is emitted
\* if and only if both coordinates are non-null and convert to numbers, and
\* every output feature has the point geometry of its converted coordinates.
C18_EmittedIffLocatedWhenProcessed ==
    /\ Len(l_sink.feats) = Cardinality({k \in 1..(l_i - 1) : Located(l_data[k])})
    /\ \A j \in 1..Len(l_sink.feats) :
         /\ l_sink.feats[j].geom # NoPoint
         /\ l_sink.feats[j].geom =
              TransformPoint(PyFloat(l_sink.feats[j].attrs[FieldIndex("lon")]).n,
                             PyFloat(l_sink.feats[j].attrs[FieldIndex("lat")]).n)

C18_Witness ==
    /\ l_pc = "done"
    /\ ~l_canceled
    /\ Len(l_data) = 2
    /\ Len(l_sink.feats) = 1
    /\ DictGet(l_data[1], "lon") = StrV("abc")
    /\ DictGet(l_data[1], "lat") = FloatV(321)
    /\ DictGet(l_data[2], "lon") = StrV("34.8")
    /\ DictGet(l_data[2], "lat") = FloatV(321)

====
